---------------------------- MODULE Spec2Model ----------------------------
(***************************************************************************)
(* A model of app.py: the Streamlit chat page around a LangChain agent     *)
(* with three tools (web search, send_email, save_note).                   *)
(*                                                                         *)
(* Python values are represented as follows.                               *)
(*   - an optional string (a parameter whose default is None) is a         *)
(*     sequence of length at most one: None is << >>, the string s is      *)
(*     <<s>>;                                                              *)
(*   - the text of an email (content, subject, body) is a sequence of      *)
(*     one-character strings, so that strip, split and slicing are         *)
(*     computed character by character;                                    *)
(*   - a formatted text (an f-string) is the sequence of its parts.        *)
(***************************************************************************)
EXTENDS Naturals, Sequences, FiniteSets

VARIABLES
    messages,        \* st.session_state.messages
    agent_executor,  \* st.session_state.agent_executor (None: key absent)
    fields,          \* what the four sidebar inputs hold
    page,            \* what the last script run rendered
    last_run,        \* what the last script run did
    fs,              \* the files save_note can write: name -> optional text
    call,            \* the activation of send_email being executed
    note             \* the last save_note call and the saves made so far

vars == <<messages, agent_executor, fields, page, last_run, fs, call, note>>

(***************************************************************************)
(* Bounds of the model.                                                    *)
(***************************************************************************)
MaxLead == 1       \* characters before the long run of an email's content
MaxPad == 2        \* characters after it
MaxSlack == 1      \* how far the run's length is from the subject limit
MaxMessages == 4   \* transcript entries
MaxToolCalls == 1  \* tool calls the agent makes in one invocation

(***************************************************************************)
(* Python's truth value of an optional string and of a string.             *)
(***************************************************************************)
None == << >>

Some(s) == <<s>>

Truthy(v) == v # None /\ v[1] # ""

(***************************************************************************)
(* send_email, lines 51-57: the subject and the body.                      *)
(***************************************************************************)
SubjectMax == 50

Whitespace == {" ", "\n"}

RECURSIVE lstrip(_)
lstrip(s) ==
    IF s = << >> THEN s
    ELSE IF Head(s) \in Whitespace THEN lstrip(Tail(s)) ELSE s

RECURSIVE rstrip(_)
rstrip(s) ==
    IF s = << >> THEN s
    ELSE IF s[Len(s)] \in Whitespace THEN rstrip(SubSeq(s, 1, Len(s) - 1)) ELSE s

strip(s) == rstrip(lstrip(s))

\* s.split('\n')[0]
RECURSIVE split_first(_)
split_first(s) ==
    IF s = << >> THEN s
    ELSE IF Head(s) = "\n" THEN << >>
    ELSE <<Head(s)>> \o split_first(Tail(s))

Slice(s, n) == SubSeq(s, 1, IF Len(s) < n THEN Len(s) ELSE n)

Ellipsis == <<".", ".", ".">>

NoSubject == <<"N", "o", " ", "S", "u", "b", "j", "e", "c", "t">>

first_line(content) == split_first(strip(content))

subject_untruncated(content) ==
    LET line == first_line(content)
    IN  IF line = << >> THEN NoSubject ELSE line

subject(content) ==
    LET line == first_line(content)
        s == IF Len(line) > SubjectMax THEN Slice(line, SubjectMax) \o Ellipsis
             ELSE line
    IN  IF s = << >> THEN NoSubject ELSE s

body(content) == content

(***************************************************************************)
(* send_email, lines 43-49: the recipient and the configuration checks.    *)
(***************************************************************************)
recipient_default_first(recipient_email, default_recipient) ==
    IF Truthy(default_recipient) THEN default_recipient ELSE recipient_email

recipient_to_use(recipient_email, default_recipient) ==
    IF Truthy(recipient_email) THEN recipient_email ELSE default_recipient

NoRecipientError == <<"Error: No recipient email provided and no default is set.">>

NoSenderError == <<"Error: Sender email credentials are not configured.">>

EmailSent(to) == <<"Email sent successfully to ", to, "!">>

EmailFailed(e) == <<"Failed to send email: ", e>>

\* The exception a failing SMTP step raises (lines 64-68).
SmtpError(step) ==
    CASE step = "connect" -> "OSError"
      [] step = "starttls" -> "SMTPNotSupportedError"
      [] step = "login" -> "SMTPAuthenticationError"
      [] step = "send_message" -> "SMTPRecipientsRefused"
      [] OTHER -> "SMTPServerDisconnected"

NewCall(content, recipient_email, sender_email, email_password, default_recipient) ==
    [pc |-> "start",
     content |-> content,
     recipient_email |-> recipient_email,
     sender_email |-> sender_email,
     email_password |-> email_password,
     default_recipient |-> default_recipient,
     msg |-> None,
     wire |-> << >>,
     ret |-> None]

\* Lines 43-62: up to the message being built, or an early return.
prepare(c) ==
    LET to == recipient_to_use(c.recipient_email, c.default_recipient)
    IN  IF ~Truthy(to)
        THEN [c EXCEPT !.pc = "done", !.ret = NoRecipientError]
        ELSE IF ~Truthy(c.sender_email) \/ ~Truthy(c.email_password)
        THEN [c EXCEPT !.pc = "done", !.ret = NoSenderError]
        ELSE [c EXCEPT !.pc = "connect",
                       !.msg = Some([From |-> c.sender_email[1],
                                     To |-> to[1],
                                     Subject |-> subject(c.content),
                                     Body |-> body(c.content)])]

(***************************************************************************)
(* send_email, lines 64-71: the SMTP conversation.  Each step either       *)
(* succeeds or raises; the wire records every step attempted.              *)
(***************************************************************************)
\* The statement that follows each SMTP statement (lines 64-69).
login_before_starttls(step) ==
    CASE step = "connect" -> "login"
      [] step = "login" -> "starttls"
      [] step = "starttls" -> "send_message"
      [] step = "send_message" -> "quit"
      [] OTHER -> "return"

after_step(step) ==
    CASE step = "connect" -> "starttls"
      [] step = "starttls" -> "login"
      [] step = "login" -> "send_message"
      [] step = "send_message" -> "quit"
      [] OTHER -> "return"

smtp_arg(c) ==
    CASE c.pc = "login" -> <<c.sender_email[1], c.email_password[1]>>
      [] c.pc = "send_message" -> <<c.msg[1]>>
      [] OTHER -> << >>

smtp_step(c, ok) ==
    LET w == Append(c.wire, [op |-> c.pc, ok |-> ok, arg |-> smtp_arg(c)])
    IN  IF ~ok
        THEN [c EXCEPT !.wire = w, !.pc = "done", !.ret = EmailFailed(SmtpError(c.pc))]
        ELSE IF after_step(c.pc) = "return"
        THEN [c EXCEPT !.wire = w, !.pc = "done", !.ret = EmailSent(c.msg[1].To)]
        ELSE [c EXCEPT !.wire = w, !.pc = after_step(c.pc)]

\* The whole call, the step named fail_at (if any) raising.
RECURSIVE run_call(_, _)
run_call(c, fail_at) ==
    IF c.pc = "done" THEN c
    ELSE IF c.pc = "start" THEN run_call(prepare(c), fail_at)
    ELSE run_call(smtp_step(c, c.pc # fail_at), fail_at)

send_email(content, recipient_email, sender_email, email_password, default_recipient, fail_at) ==
    run_call(NewCall(content, recipient_email, sender_email, email_password,
                     default_recipient), fail_at)

IdleCall == [NewCall(<< >>, None, None, None, None) EXCEPT !.pc = "idle"]

(***************************************************************************)
(* save_note, lines 75-87.  A file is None when it does not exist and      *)
(* otherwise holds the sequence of the chunks written to it; open(.., "w") *)
(* creates or truncates it, f.write(content) adds content to it.           *)
(***************************************************************************)
FileNames == {"a.txt", "b.txt"}

NoteSaved(filename) == <<"Note saved successfully as ", filename, ".">>

NoteFailed(e) == <<"Failed to save note: ", e>>

written(text, content) == IF content = "" THEN text ELSE Append(text, content)

\* open(filename, "a"): the existing text is kept.
open_append(files, filename) ==
    IF files[filename] = None THEN [files EXCEPT ![filename] = Some(<< >>)]
    ELSE files

\* open(filename, "w")
open_w(files, filename) == [files EXCEPT ![filename] = Some(<< >>)]

\* outcome: "ok", or the statement that raises ("open", "write").
save_note(files, filename, content, outcome) ==
    IF outcome = "open"
    THEN [fs |-> files, ret |-> NoteFailed("OSError(open)")]
    ELSE LET opened == open_w(files, filename)
         IN  IF outcome = "write"
             THEN [fs |-> opened, ret |-> NoteFailed("OSError(write)")]
             ELSE [fs |-> [opened EXCEPT ![filename] =
                                     Some(written(opened[filename][1], content))],
                   ret |-> NoteSaved(filename)]

(***************************************************************************)
(* The states of the parts of the program a specification leaves alone.    *)
(***************************************************************************)
NoFiles == [f \in FileNames |-> None]

NoNote == [filename |-> "", content |-> "", ret |-> None, before |-> None,
           failed |-> FALSE, saved |-> [f \in FileNames |-> None]]

NoFields == [groq_api_key |-> "", sender_email |-> "", email_password |-> "",
             default_recipient |-> ""]

\* The page of the first run: nothing clicked, no agent yet.
NoPage == [notice |-> "none", warning |-> TRUE, chat_input |-> FALSE]

NoRun == [clicked |-> FALSE, typed |-> None, stored |-> FALSE,
          has_agent |-> FALSE, invoked |-> FALSE, outcome |-> "none",
          wire |-> << >>]

(***************************************************************************)
(* SpecEmail: one call of send_email on every input of a bounded set,      *)
(* executed statement by statement.                                        *)
(***************************************************************************)
SeqsUpTo(S, n) == UNION {[1..m -> S] : m \in 0..n}

PadChars == {" ", "\n", "b"}

Run(k) == [i \in 1..k |-> "a"]

RunLengths ==
    {0} \cup {k \in 0..(SubjectMax + MaxSlack) : k + MaxSlack >= SubjectMax}

Contents ==
    {pre \o Run(k) \o post :
        pre \in SeqsUpTo(PadChars, MaxLead), k \in RunLengths,
        post \in SeqsUpTo(PadChars, MaxPad)}

Recipients == {None, Some(""), Some("to@x")}

Defaults == {None, Some(""), Some("default@x")}

Senders == {Some(""), Some("me@x")}

Passwords == {None, Some("pw")}

EmailInit ==
    /\ call \in {NewCall(c, r, s, p, d) :
                    c \in Contents, r \in Recipients, s \in Senders,
                    p \in Passwords, d \in Defaults}
    /\ messages = << >>
    /\ agent_executor = None
    /\ fields = NoFields
    /\ page = NoPage
    /\ last_run = NoRun
    /\ fs = NoFiles
    /\ note = NoNote

EmailFrame == UNCHANGED <<messages, agent_executor, fields, page, last_run, fs, note>>

EmailPrepare ==
    /\ call.pc = "start"
    /\ call' = prepare(call)
    /\ EmailFrame

EmailConnect ==
    /\ call.pc = "connect"
    /\ \E ok \in BOOLEAN : call' = smtp_step(call, ok)
    /\ EmailFrame

EmailStartTLS ==
    /\ call.pc = "starttls"
    /\ \E ok \in BOOLEAN : call' = smtp_step(call, ok)
    /\ EmailFrame

EmailLogin ==
    /\ call.pc = "login"
    /\ \E ok \in BOOLEAN : call' = smtp_step(call, ok)
    /\ EmailFrame

EmailSendMessage ==
    /\ call.pc = "send_message"
    /\ \E ok \in BOOLEAN : call' = smtp_step(call, ok)
    /\ EmailFrame

EmailQuit ==
    /\ call.pc = "quit"
    /\ \E ok \in BOOLEAN : call' = smtp_step(call, ok)
    /\ EmailFrame

EmailNext ==
    \/ EmailPrepare
    \/ EmailConnect
    \/ EmailStartTLS
    \/ EmailLogin
    \/ EmailSendMessage
    \/ EmailQuit

SpecEmail == EmailInit /\ [][EmailNext]_vars

(***************************************************************************)
(* SpecNote: any sequence of save_note calls on a directory that may       *)
(* already hold files.  note records the last call (its arguments, what    *)
(* it returned, what the file was before), whether any call so far failed, *)
(* and the content of the last successful save to each name.               *)
(***************************************************************************)
NoteContents == {"", "milk", "eggs"}

OldFiles == {None, Some(<< >>), Some(<<"old">>)}

NoteInit ==
    /\ fs \in [FileNames -> OldFiles]
    /\ note = NoNote
    /\ messages = << >>
    /\ agent_executor = None
    /\ fields = NoFields
    /\ page = NoPage
    /\ last_run = NoRun
    /\ call = IdleCall

SaveNote ==
    /\ \E filename \in FileNames, content \in NoteContents,
          outcome \in {"ok", "open", "write"} :
          LET r == save_note(fs, filename, content, outcome)
          IN  /\ fs' = r.fs
              /\ note' = [filename |-> filename,
                          content |-> content,
                          ret |-> r.ret,
                          before |-> fs[filename],
                          failed |-> note.failed \/ outcome # "ok",
                          saved |-> IF outcome = "ok"
                                    THEN [note.saved EXCEPT ![filename] = Some(content)]
                                    ELSE note.saved]
    /\ UNCHANGED <<messages, agent_executor, fields, page, last_run, call>>

NoteNext == SaveNote

SpecNote == NoteInit /\ [][NoteNext]_vars

(***************************************************************************)
(* initialize_agent, lines 91-132: the executor holds the model's API key  *)
(* and the email tool, a partial application of send_email to the three    *)
(* keyword arguments given here.                                           *)
(***************************************************************************)
initialize_agent(groq_api_key, sender_email, email_password, default_recipient) ==
    Some([groq_api_key |-> groq_api_key,
          email_tool |-> [sender_email |-> sender_email,
                          email_password |-> email_password,
                          default_recipient |-> default_recipient]])

\* Line 156: all([...]) of four strings.
any_filled(f) ==
    \/ f.groq_api_key # ""
    \/ f.sender_email # ""
    \/ f.email_password # ""
    \/ f.default_recipient # ""

all_filled(f) ==
    /\ f.groq_api_key # ""
    /\ f.sender_email # ""
    /\ f.email_password # ""
    /\ f.default_recipient # ""

\* Line 173: "agent_executor" in st.session_state.
always_present(ex) == TRUE

has_agent(ex) == ex # None

(***************************************************************************)
(* AgentExecutor.invoke, line 190.  What the model asks for is not decided *)
(* by this program: a plan is the sequence of tool calls it makes.  The    *)
(* email tool is called with one positional argument, the content; the     *)
(* keywords of the partial supply the rest and recipient_email is None.    *)
(***************************************************************************)
EmailFaults == {"none", "login"}

EmailTexts == {<<"h", "i">>}

NoteFiles == {"a.txt"}

NoteTexts == {"milk"}

NoteFaults == {"ok"}

ToolCalls ==
    {[tool |-> "send_email", text |-> t, filename |-> "", content |-> "",
      fault |-> f] : t \in EmailTexts, f \in EmailFaults}
    \cup
    {[tool |-> "save_note", text |-> << >>, filename |-> n, content |-> c,
      fault |-> o] : n \in NoteFiles, c \in NoteTexts, o \in NoteFaults}

Plans == SeqsUpTo(ToolCalls, MaxToolCalls)

\* The email tool reading the sidebar's values of the current run.
email_tool_from_fields(ex, sidebar, text, fault) ==
    send_email(text, None, Some(sidebar.sender_email), Some(sidebar.email_password),
               Some(sidebar.default_recipient), fault)

email_tool(ex, sidebar, text, fault) ==
    LET kw == ex[1].email_tool
    IN  send_email(text, None, Some(kw.sender_email), Some(kw.email_password),
                   Some(kw.default_recipient), fault)

\* One tool call: the files and the SMTP traffic after it.
use_tool(ex, sidebar, st, tc) ==
    CASE tc.tool = "send_email" ->
             [st EXCEPT !.wire = @ \o email_tool(ex, sidebar, tc.text, tc.fault).wire]
      [] tc.tool = "save_note" ->
             [st EXCEPT !.fs = save_note(st.fs, tc.filename, tc.content, tc.fault).fs]
      [] OTHER -> st

RECURSIVE use_tools(_, _, _, _)
use_tools(ex, sidebar, st, plan) ==
    IF plan = << >> THEN st
    ELSE use_tools(ex, sidebar, use_tool(ex, sidebar, st, Head(plan)), Tail(plan))

\* With no executor in the session, line 190 raises before any tool runs.
invoke(ex, sidebar, files, plan) ==
    IF ex = None THEN [fs |-> files, wire |-> << >>]
    ELSE use_tools(ex, sidebar, [fs |-> files, wire |-> << >>], plan)

(***************************************************************************)
(* The script, lines 137-208: one run from top to bottom.                  *)
(*   new_fields  what the four text inputs return (lines 149-152)          *)
(*   clicked     what st.button returns (line 155)                         *)
(*   typed       what st.chat_input returns if line 177 is reached         *)
(*   plan        the tool calls the agent makes if it is invoked           *)
(*   outcome     how lines 180-208 end:                                    *)
(*     "answer"     the response has an "output"                           *)
(*     "no_output"  the response has none (the default text, line 193)     *)
(*     "raise"      lines 188-203 raise an Exception (caught, line 205)    *)
(*     "stop_early" a BaseException that is no Exception (the script       *)
(*                  runner stopping or rerunning the script, raised by     *)
(*                  the st calls of lines 180-185) before the invocation   *)
(*     "stop_late"  the same after the invocation (lines 196-200, 207)     *)
(***************************************************************************)
Prompts == {"mail it"}

Outcomes == {"answer", "no_output", "raise", "stop_early", "stop_late"}

FieldValues ==
    [groq_api_key : {"", "gsk"}, sender_email : {"", "me@x", "alt@x"},
     email_password : {"", "pw"}, default_recipient : {"", "default@x"}]

Entry(role, content) == [role |-> role, content |-> content]

FinalAnswer == <<"Done.">>

DefaultAnswer == <<"I'm sorry, I encountered an error.">>

ErrorMessage(e) == <<"An error occurred: ", e>>

\* Lines 186-208: the assistant entry appended, if any.
reply(outcome) ==
    CASE outcome = "answer" -> Some(FinalAnswer)
      [] outcome = "no_output" -> Some(DefaultAnswer)
      [] outcome = "raise" -> Some(ErrorMessage("AgentError"))
      [] OTHER -> None

\* Line 142 run on every rerun instead of only when the key is missing.
transcript_reset(transcript) == << >>

\* Lines 141-142: the transcript the run starts from.
transcript_kept(transcript) == transcript

Rerun(new_fields, clicked, typed, plan, outcome) ==
    LET stored == clicked /\ all_filled(new_fields)
        ex == IF stored
              THEN initialize_agent(new_fields.groq_api_key, new_fields.sender_email,
                                    new_fields.email_password,
                                    new_fields.default_recipient)
              ELSE agent_executor
        notice == IF ~clicked THEN "none" ELSE IF stored THEN "success" ELSE "error"
        present == has_agent(ex)
        prompt == IF present THEN typed ELSE None
        submitted == prompt # None
        invoked == submitted /\ outcome # "stop_early"
        m0 == transcript_kept(messages)
        m1 == IF submitted THEN Append(m0, Entry("user", prompt)) ELSE m0
        done == IF invoked THEN invoke(ex, new_fields, fs, plan)
                ELSE [fs |-> fs, wire |-> << >>]
        answer == IF submitted THEN reply(outcome) ELSE None
        m2 == IF answer # None THEN Append(m1, Entry("assistant", answer[1])) ELSE m1
    IN  /\ fields' = new_fields
        /\ agent_executor' = ex
        /\ messages' = m2
        /\ fs' = done.fs
        /\ page' = [notice |-> notice, warning |-> ~present, chat_input |-> present]
        /\ last_run' = [clicked |-> clicked, typed |-> typed, stored |-> stored,
                        has_agent |-> present, invoked |-> invoked,
                        outcome |-> IF submitted THEN outcome ELSE "none",
                        wire |-> done.wire]
        /\ UNCHANGED <<call, note>>

Init ==
    /\ messages = << >>
    /\ agent_executor = None
    /\ fields = NoFields
    /\ page = NoPage
    /\ last_run = NoRun
    /\ fs = NoFiles
    /\ call = IdleCall
    /\ note = NoNote

\* One of the four text inputs was edited.
EditFields ==
    \E f \in FieldValues :
        /\ Cardinality({k \in DOMAIN f : f[k] # fields[k]}) = 1
        /\ Rerun(f, FALSE, None, << >>, "none")

\* "Initialize Agent" was clicked.
ClickInitialize == Rerun(fields, TRUE, None, << >>, "none")

\* A prompt was submitted.
SubmitPrompt ==
    /\ Len(messages) + 2 <= MaxMessages
    /\ \E p \in Prompts, plan \in Plans, outcome \in Outcomes :
           Rerun(fields, FALSE, Some(p), plan, outcome)

Next ==
    \/ EditFields
    \/ ClickInitialize
    \/ SubmitPrompt

Spec == Init /\ [][Next]_vars

(***************************************************************************)
(* Claims about send_email, checked under SpecEmail.                       *)
(***************************************************************************)
Returned == call.pc = "done"

Built == call.msg # None

\* C4: send_email sends to recipient_email when it is non-empty and
\* otherwise to the default recipient; when both are absent or empty it
\* returns the "no recipient" error.  The To header, the message handed to
\* the server and the success text all carry exactly the chosen address.
C4_RecipientChoice ==
    LET given == Truthy(call.recipient_email)
        fallback == Truthy(call.default_recipient)
        sent == {i \in 1..Len(call.wire) : call.wire[i].op = "send_message"}
    IN  /\ (Returned /\ ~given /\ ~fallback) =>
               /\ call.ret = <<"Error: No recipient email provided and no default is set.">>
               /\ ~Built
        /\ (Built /\ given) => call.msg[1].To = call.recipient_email[1]
        /\ (Built /\ ~given) => fallback /\ call.msg[1].To = call.default_recipient[1]
        /\ \A i \in sent : call.wire[i].arg[1].To = call.msg[1].To
        /\ (Returned /\ Len(call.ret) = 3) =>
               call.ret = <<"Email sent successfully to ", call.msg[1].To, "!">>

\* C4 witness: an email was sent to the default recipient because
\* recipient_email was the empty string.
C4_Witness ==
    /\ Returned
    /\ call.recipient_email = Some("")
    /\ call.ret = <<"Email sent successfully to ", "default@x", "!">>

\* The text between the first and the last non-whitespace character.
StrippedText(s) ==
    LET inked == {i \in 1..Len(s) : s[i] \notin Whitespace}
    IN  IF inked = {} THEN << >>
        ELSE SubSeq(s, CHOOSE i \in inked : \A j \in inked : i <= j,
                       CHOOSE i \in inked : \A j \in inked : j <= i)

\* The text before the first line feed.
TextBeforeLineFeed(s) ==
    LET feeds == {i \in 1..Len(s) : s[i] = "\n"}
    IN  IF feeds = {} THEN s
        ELSE SubSeq(s, 1, (CHOOSE i \in feeds : \A j \in feeds : i <= j) - 1)

\* C5: the subject is the first line of the stripped content, cut to its
\* first 50 characters plus "..." when longer than 50, and "No Subject"
\* when empty; so it is never empty, has at most 53 characters and holds no
\* line feed, and the body is the content unmodified.
C5_Subject ==
    Built =>
        LET line == TextBeforeLineFeed(StrippedText(call.content))
            subj == call.msg[1].Subject
        IN  /\ Len(line) > 50 =>
                   /\ Len(subj) = 53
                   /\ SubSeq(subj, 1, 50) = SubSeq(line, 1, 50)
                   /\ SubSeq(subj, 51, 53) = <<".", ".", ".">>
            /\ (Len(line) <= 50 /\ line # << >>) => subj = line
            /\ line = << >> => subj = <<"N", "o", " ", "S", "u", "b", "j", "e", "c", "t">>
            /\ subj # << >>
            /\ Len(subj) <= 53
            /\ \A i \in 1..Len(subj) : subj[i] # "\n"
            /\ call.msg[1].Body = call.content

\* C5 witness: a content with leading whitespace, a first line of more than
\* 50 characters and a second line got a 53-character subject.
C5_Witness ==
    /\ Built
    /\ call.content # << >>
    /\ Head(call.content) \in Whitespace
    /\ Len(TextBeforeLineFeed(StrippedText(call.content))) > 50
    /\ Len(StrippedText(call.content)) >
           Len(TextBeforeLineFeed(StrippedText(call.content)))
    /\ Len(call.msg[1].Subject) = 53

C10_Order == <<"connect", "starttls", "login", "send_message", "quit">>

\* C10: the server is contacted only once a recipient is resolved and both
\* sender credentials are non-empty; the steps are attempted in the order
\* connect, starttls, login, send_message, quit, each only after the one
\* before it succeeded; success is returned only after all five succeeded
\* and a failing step ends the call with "Failed to send email: ...".
C10_SmtpSequence ==
    LET w == call.wire
        configured ==
            /\ Truthy(call.recipient_email) \/ Truthy(call.default_recipient)
            /\ Truthy(call.sender_email)
            /\ Truthy(call.email_password)
    IN  /\ w # << >> => configured
        /\ (Returned /\ ~configured) =>
               /\ w = << >>
               /\ call.ret \in {<<"Error: No recipient email provided and no default is set.">>,
                                <<"Error: Sender email credentials are not configured.">>}
        /\ Len(w) <= Len(C10_Order)
        /\ \A i \in 1..Len(w) :
               /\ w[i].op = C10_Order[i]
               /\ i > 1 => w[i - 1].ok
        /\ (Returned /\ Len(call.ret) = 3) =>
               /\ Len(w) = 5
               /\ \A i \in 1..5 : w[i].ok
        /\ \A i \in 1..Len(w) :
               ~w[i].ok =>
                   /\ Returned
                   /\ i = Len(w)
                   /\ Len(call.ret) = 2
                   /\ call.ret[1] = "Failed to send email: "
        /\ (Returned /\ configured /\ Len(call.ret) # 3) =>
               w # << >> /\ ~w[Len(w)].ok

\* C10 witness: login was refused after starttls succeeded, and the call
\* returned the failure text without sending.
C10_Witness ==
    /\ Returned
    /\ Len(call.wire) = 3
    /\ call.wire[2].ok
    /\ ~call.wire[3].ok
    /\ call.ret = <<"Failed to send email: ", "SMTPAuthenticationError">>

(***************************************************************************)
(* Claims about save_note, checked under SpecNote.                         *)
(***************************************************************************)
SavedOk(n) == Len(n.ret) = 3 /\ n.ret[1] = "Note saved successfully as "

HoldsExactly(file, content) ==
    file = IF content = "" THEN <<<< >>>> ELSE <<<<content>>>>

\* C6: after save_note returns "Note saved successfully as <filename>." the
\* file of that name holds exactly content, whatever it held before, and
\* every other file is as it was; repeating the save changes nothing; and
\* while every save so far succeeded each file saved to holds the content
\* of the last save made to its name.
C6_SaveNote ==
    /\ [][SavedOk(note') =>
              /\ note'.ret[2] = note'.filename
              /\ HoldsExactly(fs'[note'.filename], note'.content)
              /\ \A g \in FileNames \ {note'.filename} : fs'[g] = fs[g]]_vars
    /\ [][(SavedOk(note) /\ SavedOk(note') /\ note'.filename = note.filename
              /\ note'.content = note.content) => fs' = fs]_vars
    /\ [](~note.failed =>
              \A g \in FileNames :
                  note.saved[g] # None => HoldsExactly(fs[g], note.saved[g][1]))

\* C6 witness: a successful save replaced the text "old" of a file with new
\* content while the other file still holds what an earlier save put there.
C6_Witness ==
    /\ SavedOk(note)
    /\ ~note.failed
    /\ note.filename = "a.txt"
    /\ note.before = <<<<"old">>>>
    /\ fs["a.txt"] = <<<<"milk">>>>
    /\ note.saved["b.txt"] = <<"eggs">>
    /\ fs["b.txt"] = <<<<"eggs">>>>

(***************************************************************************)
(* Claims about the page, checked under Spec.                              *)
(***************************************************************************)
IsPrefix(s, t) == Len(s) <= Len(t) /\ SubSeq(t, 1, Len(s)) = s

\* C1: the transcript starts empty and every rerun leaves the transcript it
\* found as a prefix of the one it leaves: entries are only appended.
C1_AppendOnly ==
    /\ messages = << >>
    /\ [][IsPrefix(messages, messages')]_vars

\* C1 witness: a prompt whose invocation raised was appended, with its
\* error reply, behind an earlier exchange.
C1_Witness ==
    /\ Len(messages) = 4
    /\ last_run.outcome = "raise"
    /\ messages[4].content = <<"An error occurred: ", "AgentError">>

Filled(f) == \A k \in DOMAIN f : f[k] # ""

\* C2: a click on "Initialize Agent" stores an agent exactly when the four
\* fields are all non-empty; otherwise the error is shown and the session
\* is as it was: an earlier agent stays and the chat input is still offered,
\* no agent appears if there was none; the transcript is untouched either
\* way.
C2_InitializeClick ==
    [][last_run'.clicked =>
           /\ last_run'.stored <=> Filled(fields')
           /\ last_run'.stored =>
                  /\ agent_executor' # None
                  /\ page'.notice = "success"
                  /\ page'.chat_input
           /\ ~last_run'.stored =>
                  /\ page'.notice = "error"
                  /\ agent_executor' = agent_executor
                  /\ page'.chat_input <=> agent_executor # None
           /\ messages' = messages]_vars

\* C2 witness: a click with an empty field was rejected while an agent was
\* in place and the transcript was not empty.
C2_Witness ==
    /\ last_run.clicked
    /\ ~last_run.stored
    /\ page.notice = "error"
    /\ agent_executor # None
    /\ page.chat_input
    /\ messages # << >>

\* C3: a rerun that ends with no agent in the session invoked nothing and
\* appended nothing, showed the warning and offered no chat input; so a
\* transcript with an entry implies an agent was initialised.
C3_NoAgentNoChat ==
    /\ [](agent_executor = None =>
              /\ ~last_run.invoked
              /\ last_run.wire = << >>
              /\ page.warning
              /\ ~page.chat_input
              /\ messages = << >>)
    /\ [][agent_executor' = None => messages' = messages /\ fs' = fs]_vars
    /\ [](messages # << >> => agent_executor # None)

\* C3 witness: a rerun carrying a prompt found no agent in the session.
C3_Witness ==
    /\ last_run.typed # None
    /\ ~last_run.has_agent
    /\ agent_executor = None
    /\ page.warning

Credentials == {"gsk", "me@x", "alt@x", "pw", "default@x"}

Kept ==
    IF agent_executor = None THEN {}
    ELSE {agent_executor[1].groq_api_key,
          agent_executor[1].email_tool.sender_email,
          agent_executor[1].email_tool.email_password,
          agent_executor[1].email_tool.default_recipient}

Parts(text) == {text[i] : i \in 1..Len(text)}

\* C7: the credentials entered are not stored: none of them is held in the
\* session between reruns, written to a file by save_note or appended to
\* the transcript.
C7_CredentialsNotStored ==
    /\ Kept \cap Credentials = {}
    /\ \A f \in FileNames : fs[f] # None => Parts(fs[f][1]) \cap Credentials = {}
    /\ \A i \in 1..Len(messages) : Parts(messages[i].content) \cap Credentials = {}

\* C8: every prompt leaves a "user" entry followed by one "assistant"
\* entry, so after every rerun the transcript has even length and its
\* entries alternate user, assistant.
C8_PairedTranscript ==
    /\ Len(messages) % 2 = 0
    /\ \A i \in 1..Len(messages) :
           messages[i].role = IF i % 2 = 1 THEN "user" ELSE "assistant"

\* C9: every login and every message the agent's email tool makes carries
\* the sender, password and default recipient of the agent in the session;
\* that agent changes only in a rerun where "Initialize Agent" was clicked
\* with four non-empty fields, and then holds the values the fields had in
\* that rerun.
C9_BakedCredentials ==
    /\ [](\A i \in 1..Len(last_run.wire) :
              LET e == last_run.wire[i]
                  kw == agent_executor[1].email_tool
              IN  /\ e.op = "login" => e.arg = <<kw.sender_email, kw.email_password>>
                  /\ e.op = "send_message" =>
                         /\ e.arg[1].From = kw.sender_email
                         /\ e.arg[1].To = kw.default_recipient)
    /\ [][agent_executor' # agent_executor =>
              last_run'.clicked /\ Filled(fields')]_vars
    /\ [][(last_run'.clicked /\ Filled(fields')) =>
              agent_executor'[1].email_tool =
                  [sender_email |-> fields'.sender_email,
                   email_password |-> fields'.email_password,
                   default_recipient |-> fields'.default_recipient]]_vars

\* C9 witness: the agent sent an email as me@x after the sender field was
\* changed to alt@x and the key field was emptied.
C9_Witness ==
    /\ agent_executor # None
    /\ agent_executor[1].email_tool.sender_email = "me@x"
    /\ fields.sender_email = "alt@x"
    /\ fields.groq_api_key = ""
    /\ Len(last_run.wire) = 5
    /\ last_run.wire[3].arg = <<"me@x", "pw">>
    /\ last_run.wire[4].ok

=============================================================================
